---- MODULE Spec2Model ----
(***************************************************************************)
(* Counter program (src/src/lib.rs): one entry point, process_instruction, *)
(* decodes an instruction buffer, parses the first account's data as a     *)
(* CounterAccount { counter: u32 }, applies the instruction and serializes *)
(* the counter back into the same account data.                            *)
(*                                                                         *)
(* A u32 is kept as two 16-bit limbs [hi, lo] (value hi * 65536 + lo) so   *)
(* that the full 32-bit range is covered with machine integers; buffers    *)
(* are sequences of bytes.                                                 *)
(***************************************************************************)
EXTENDS Integers, Sequences, FiniteSets, TLC

(* ------------------------------ bounds --------------------------------- *)
MaxCalls == 1
MaxInstrLen == 5
MaxDataLen == 5
MaxAccounts == 2
MaxTestCalls == 5

\* byte values the buffers of the initial state and of the inputs are built of
ByteVals == {0, 255}
\* tag bytes tried: the four variants and two bytes outside them
TagVals == {0, 1, 2, 3, 4, 255}

(* --------------------------- byte buffers ------------------------------ *)
RECURSIVE SeqsOfLen(_, _)
SeqsOfLen(S, n) ==
    IF n = 0 THEN {<<>>}
    ELSE {Append(s, x) : s \in SeqsOfLen(S, n - 1), x \in S}

\* the buffer of n bytes used where only the length of a buffer matters
Fill(n) == [i \in 1..n |-> 255]

\* operands: every 4-byte operand over ByteVals, and one operand of every other length
Operands == SeqsOfLen(ByteVals, 4) \cup {Fill(n) : n \in 0..(MaxInstrLen - 1)}

InstructionBuffers == {<<>>} \cup {<<t>> \o s : t \in TagVals, s \in Operands}

\* account data: every 4-byte buffer over ByteVals, and one buffer of every other length
DataBuffers == SeqsOfLen(ByteVals, 4) \cup {Fill(n) : n \in 0..MaxDataLen}

(* ------------------------------- u32 ----------------------------------- *)
\* u32::from_le_bytes, as borsh reads a u32
u32_from_le_bytes(b) ==
    [lo |-> b[1] + 256 * b[2], hi |-> b[3] + 256 * b[4]]

\* u32::to_le_bytes, as borsh writes a u32
u32_to_le_bytes(x) ==
    <<x.lo % 256, x.lo \div 256, x.hi % 256, x.hi \div 256>>

u32_zero == [lo |-> 0, hi |-> 0]

\* c >= v on u32
u32_ge(c, v) == c.hi > v.hi \/ (c.hi = v.hi /\ c.lo >= v.lo)

\* c + v on u32: the wrapped sum and whether the true sum left the range
u32_add(c, v) ==
    LET l == c.lo + v.lo
        h == c.hi + v.hi + (l \div 65536)
    IN  [value |-> [lo |-> l % 65536, hi |-> h % 65536],
         overflow |-> h >= 65536]

\* c - v on u32, used only under c >= v
u32_sub(c, v) ==
    LET l == c.lo - v.lo
        borrow == IF l < 0 THEN 1 ELSE 0
    IN  [lo |-> l + 65536 * borrow, hi |-> c.hi - v.hi - borrow]

(* ------------------------------ results -------------------------------- *)
Ok == "Ok"
\* the error CounterInstructions::unpack returns
MalformedInstruction == "MalformedInstruction"
\* ProgramError::NotEnoughAccountKeys, from next_account_info
NotEnoughAccountKeys == "NotEnoughAccountKeys"
\* ProgramError::BorshIoError, the io::Error of borsh converted by `?`
MalformedState == "BorshIoError"
\* the program aborts instead of returning
Panic == "Panic"

(* --------------------------- instruction decoder ----------------------- *)
TagVariant(tag) ==
    CASE tag = 0 -> "Increment"
      [] tag = 1 -> "Decrement"
      [] tag = 2 -> "Update"
      [] OTHER   -> "Reset"

\* CounterInstructions::unpack (mod instructions)
unpack(input) ==
    IF Len(input) = 0 THEN [err |-> MalformedInstruction]
    ELSE LET tag == Head(input)
             rest == Tail(input)
         IN  IF tag = 3 THEN [err |-> Ok, instruction |-> [variant |-> "Reset"]]
             ELSE IF tag \in {0, 1, 2}
                  THEN IF Len(rest) < 4 THEN [err |-> MalformedInstruction]
                       ELSE [err |-> Ok,
                             instruction |->
                                 [variant |-> TagVariant(tag),
                                  value |-> u32_from_le_bytes(SubSeq(rest, 1, 4))]]
                  ELSE [err |-> MalformedInstruction]

(* ------------------------------ accounts ------------------------------- *)
\* a next_account_info that hands out the last account of the list
next_account_info_last(accts) ==
    IF Len(accts) = 0 THEN [err |-> NotEnoughAccountKeys]
    ELSE [err |-> Ok, index |-> Len(accts)]

\* next_account_info on a fresh iterator over the account list
next_account_info(accts) ==
    IF Len(accts) = 0 THEN [err |-> NotEnoughAccountKeys]
    ELSE [err |-> Ok, index |-> 1]

\* a parse that reads the u32 and ignores bytes left over
try_from_slice_ignores_rest(data) ==
    IF Len(data) < 4 THEN [err |-> MalformedState]
    ELSE [err |-> Ok, counter_account |-> [counter |-> u32_from_le_bytes(SubSeq(data, 1, 4))]]

\* CounterAccount::try_from_slice: borsh reads the u32 and rejects input that
\* is too short or has bytes left over
try_from_slice(data) ==
    IF Len(data) < 4 THEN [err |-> MalformedState]
    ELSE IF Len(data) > 4 THEN [err |-> MalformedState]
    ELSE [err |-> Ok, counter_account |-> [counter |-> u32_from_le_bytes(data)]]

\* a serialize that writes the counter most significant byte first
serialize_big_endian(counter_account, data) ==
    LET bytes == u32_to_le_bytes(counter_account.counter)
        n == IF Len(data) < 4 THEN Len(data) ELSE 4
    IN  [err |-> IF Len(data) < 4 THEN MalformedState ELSE Ok,
         data |-> [i \in 1..Len(data) |-> IF i <= n THEN bytes[5 - i] ELSE data[i]]]

\* CounterAccount::serialize into the mutable slice over the whole account data:
\* write_all copies what fits and fails when the slice is shorter than the value
serialize(counter_account, data) ==
    LET bytes == u32_to_le_bytes(counter_account.counter)
        n == IF Len(data) < 4 THEN Len(data) ELSE 4
    IN  [err |-> IF Len(data) < 4 THEN MalformedState ELSE Ok,
         data |-> [i \in 1..Len(data) |-> IF i <= n THEN bytes[i] ELSE data[i]]]

(* --------------------------- the transition ---------------------------- *)
\* Increment arm: `counter += value` aborts on overflow in a build with overflow
\* checks and wraps in a build without them
increment(counter, value, checks) ==
    LET s == u32_add(counter, value)
    IN  IF s.overflow /\ checks THEN [err |-> Panic]
        ELSE [err |-> Ok, counter |-> s.value]

\* a Decrement that subtracts without looking whether the counter covers the value
decrement_unfloored(counter, value) ==
    [err |-> Ok, counter |-> [lo |-> counter.lo - value.lo, hi |-> counter.hi - value.hi]]

\* Decrement arm: subtract when the counter covers the value, else floor at 0
decrement(counter, value) ==
    IF u32_ge(counter, value)
    THEN [err |-> Ok, counter |-> u32_sub(counter, value)]
    ELSE [err |-> Ok, counter |-> u32_zero]

\* Reset arm
reset == [err |-> Ok, counter |-> u32_zero]

\* Update arm
update(value) == [err |-> Ok, counter |-> value]

\* a Decrement that subtracts without the floor (the difference wraps)
apply_instruction_wrapping_sub(counter, instruction, checks) ==
    CASE instruction.variant = "Increment" -> increment(counter, instruction.value, checks)
      [] instruction.variant = "Decrement" ->
            LET d == u32_sub(counter, instruction.value)
            IN  [err |-> Ok, counter |-> [lo |-> d.lo, hi |-> d.hi % 65536]]
      [] instruction.variant = "Reset" -> reset
      [] instruction.variant = "Update" -> update(instruction.value)

\* an Update that adds its operand instead of replacing the counter
apply_instruction_update_adds(counter, instruction, checks) ==
    CASE instruction.variant = "Increment" -> increment(counter, instruction.value, checks)
      [] instruction.variant = "Decrement" -> decrement(counter, instruction.value)
      [] instruction.variant = "Reset" -> reset
      [] instruction.variant = "Update" -> increment(counter, instruction.value, FALSE)

\* a Reset that leaves the counter as it is
apply_instruction_reset_keeps(counter, instruction, checks) ==
    CASE instruction.variant = "Increment" -> increment(counter, instruction.value, checks)
      [] instruction.variant = "Decrement" -> decrement(counter, instruction.value)
      [] instruction.variant = "Reset" -> [err |-> Ok, counter |-> counter]
      [] instruction.variant = "Update" -> update(instruction.value)

\* a match whose Decrement and Update arms are exchanged
apply_instruction_arms_swapped(counter, instruction, checks) ==
    CASE instruction.variant = "Increment" -> increment(counter, instruction.value, checks)
      [] instruction.variant = "Decrement" -> update(instruction.value)
      [] instruction.variant = "Reset" -> reset
      [] instruction.variant = "Update" -> decrement(counter, instruction.value)

\* the match on the instruction
apply_instruction(counter, instruction, checks) ==
    CASE instruction.variant = "Increment" -> increment(counter, instruction.value, checks)
      [] instruction.variant = "Decrement" -> decrement(counter, instruction.value)
      [] instruction.variant = "Reset" -> reset
      [] instruction.variant = "Update" -> update(instruction.value)

\* the steps of a call, in the order process_instruction takes them
AllSteps ==
    <<"unpack", "next_account_info", "borrow", "try_from_slice",
      "match", "borrow_mut", "serialize">>

\* the first n steps, then how the call ended
Steps(n, end) == Append(SubSeq(AllSteps, 1, n), end)

\* a match and write-back that also serializes inside the match, so writes twice
apply_and_store_twice(accts, index, counter_account, instruction, checks) ==
    LET applied == apply_instruction(counter_account.counter, instruction, checks)
    IN  IF applied.err # Ok
        THEN [result |-> applied.err, accounts |-> accts, events |-> Steps(5, "abort")]
        ELSE
        LET written == serialize([counter |-> applied.counter], accts[index].data)
        IN  [result |-> written.err,
             accounts |-> [accts EXCEPT ![index].data = written.data],
             events |-> <<"unpack", "next_account_info", "borrow", "try_from_slice",
                          "match", "borrow_mut", "serialize", "borrow_mut", "serialize",
                          "return">>]

\* the match and the write-back on a parsed counter account
apply_and_store(accts, index, counter_account, instruction, checks) ==
    LET applied == apply_instruction(counter_account.counter, instruction, checks)
    IN  IF applied.err # Ok
        THEN [result |-> applied.err, accounts |-> accts, events |-> Steps(5, "abort")]
        ELSE
        LET written == serialize([counter |-> applied.counter], accts[index].data)
        IN  [result |-> written.err,
             accounts |-> [accts EXCEPT ![index].data = written.data],
             events |-> Steps(7, "return")]

\* a process_instruction that takes the account before it decodes the instruction
process_instruction_account_first(program_id, accts, instructions_data, checks) ==
    LET next == next_account_info(accts)
    IN  IF next.err # Ok
        THEN [result |-> next.err, accounts |-> accts,
              events |-> <<"next_account_info", "return">>]
        ELSE
        LET parsed == try_from_slice(accts[next.index].data)
        IN  IF parsed.err # Ok
            THEN [result |-> parsed.err, accounts |-> accts,
                  events |-> <<"next_account_info", "borrow", "try_from_slice", "return">>]
            ELSE
            LET unpacked == unpack(instructions_data)
            IN  IF unpacked.err # Ok
                THEN [result |-> unpacked.err, accounts |-> accts,
                      events |-> <<"next_account_info", "borrow", "try_from_slice",
                                   "unpack", "return">>]
                ELSE apply_and_store(accts, next.index, parsed.counter_account,
                                     unpacked.instruction, checks)

\* a process_instruction that stores a default counter when the state does not parse
process_instruction_default_state(program_id, accts, instructions_data, checks) ==
    LET unpacked == unpack(instructions_data)
    IN  IF unpacked.err # Ok
        THEN [result |-> unpacked.err, accounts |-> accts, events |-> Steps(1, "return")]
        ELSE
        LET next == next_account_info(accts)
        IN  IF next.err # Ok
            THEN [result |-> next.err, accounts |-> accts, events |-> Steps(2, "return")]
            ELSE
            LET parsed == try_from_slice(accts[next.index].data)
            IN  IF parsed.err # Ok
                THEN [result |-> parsed.err,
                      accounts |-> [accts EXCEPT ![next.index].data =
                          serialize([counter |-> u32_zero], accts[next.index].data).data],
                      events |-> Steps(4, "return")]
                ELSE apply_and_store(accts, next.index, parsed.counter_account,
                                     unpacked.instruction, checks)

\* a process_instruction that unwraps the parsed state instead of propagating with `?`
process_instruction_unwrap_state(program_id, accts, instructions_data, checks) ==
    LET unpacked == unpack(instructions_data)
    IN  IF unpacked.err # Ok
        THEN [result |-> unpacked.err, accounts |-> accts, events |-> Steps(1, "return")]
        ELSE
        LET next == next_account_info(accts)
        IN  IF next.err # Ok
            THEN [result |-> next.err, accounts |-> accts, events |-> Steps(2, "return")]
            ELSE
            LET parsed == try_from_slice(accts[next.index].data)
            IN  IF parsed.err # Ok
                THEN [result |-> Panic, accounts |-> accts, events |-> Steps(4, "abort")]
                ELSE apply_and_store(accts, next.index, parsed.counter_account,
                                     unpacked.instruction, checks)

\* a process_instruction that turns away an account that did not sign
process_instruction_requires_signer(program_id, accts, instructions_data, checks) ==
    LET unpacked == unpack(instructions_data)
    IN  IF unpacked.err # Ok
        THEN [result |-> unpacked.err, accounts |-> accts, events |-> Steps(1, "return")]
        ELSE
        LET next == next_account_info(accts)
        IN  IF next.err # Ok
            THEN [result |-> next.err, accounts |-> accts, events |-> Steps(2, "return")]
            ELSE IF ~accts[next.index].is_signer
            THEN [result |-> "MissingRequiredSignature", accounts |-> accts,
                  events |-> Steps(2, "return")]
            ELSE
            LET parsed == try_from_slice(accts[next.index].data)
            IN  IF parsed.err # Ok
                THEN [result |-> parsed.err, accounts |-> accts,
                      events |-> Steps(4, "return")]
                ELSE apply_and_store(accts, next.index, parsed.counter_account,
                                     unpacked.instruction, checks)

\* process_instruction: the result, the account list it leaves and the steps it
\* took; _program_id is not looked at
process_instruction(program_id, accts, instructions_data, checks) ==
    LET unpacked == unpack(instructions_data)
    IN  IF unpacked.err # Ok
        THEN [result |-> unpacked.err, accounts |-> accts, events |-> Steps(1, "return")]
        ELSE
        LET next == next_account_info(accts)
        IN  IF next.err # Ok
            THEN [result |-> next.err, accounts |-> accts, events |-> Steps(2, "return")]
            ELSE
            LET parsed == try_from_slice(accts[next.index].data)
            IN  IF parsed.err # Ok
                THEN [result |-> parsed.err, accounts |-> accts,
                      events |-> Steps(4, "return")]
                ELSE apply_and_store(accts, next.index, parsed.counter_account,
                                     unpacked.instruction, checks)

(* ------------------------------- state --------------------------------- *)
VARIABLES
    accounts,          \* the account list the host passes to every call
    overflow_checks,   \* whether the build checks arithmetic overflow
    calls,             \* calls made so far
    instructions_data, \* instruction buffer of the last call
    pre_accounts,      \* the account list as the last call found it
    result,            \* what the last call returned ("None" before any call)
    events,            \* the steps the last call took
    earlier,           \* test driver: the call before the last one
    step               \* test driver: script steps done in order, -1 once off the script

vars == <<accounts, overflow_checks, calls, instructions_data, pre_accounts, result,
          events, earlier, step>>

\* AccountInfo as test_counter builds it
AccountInfo(key, data) ==
    [key |-> key, is_signer |-> FALSE, is_writable |-> TRUE,
     lamports |-> 0, data |-> data, owner |-> "owner"]

\* Pubkey::default(), the program id test_counter passes
DefaultPubkey == "owner"

\* data of the accounts after the first
OtherData == {<<>>, <<255, 0, 0, 0>>}

AccountLists ==
    UNION {
        {[i \in 1..n |-> AccountInfo(i, IF i = 1 THEN d ELSE o)] :
            d \in DataBuffers, o \in OtherData}
        : n \in 0..MaxAccounts}

\* no call yet
NoCall == [instructions_data |-> <<>>, pre_accounts |-> <<>>, result |-> "None"]

\* the part of the initial state that does not depend on the accounts
InitCall ==
    /\ overflow_checks \in BOOLEAN
    /\ calls = 0
    /\ instructions_data = <<>>
    /\ pre_accounts = accounts
    /\ result = "None"
    /\ events = <<>>
    /\ earlier = NoCall

Init ==
    /\ accounts \in AccountLists
    /\ InitCall
    /\ step = -1

\* one call of the entry point and what it leaves behind
Call(program_id, input) ==
    /\ LET out == process_instruction(program_id, accounts, input, overflow_checks)
       IN  /\ accounts' = out.accounts
           /\ result' = out.result
           /\ events' = out.events
    /\ pre_accounts' = accounts
    /\ instructions_data' = input
    /\ calls' = calls + 1
    /\ UNCHANGED overflow_checks

\* the host runs the program on an instruction
ProcessInstruction(program_id, input) ==
    /\ calls < MaxCalls
    /\ Call(program_id, input)
    /\ UNCHANGED <<earlier, step>>

Next == \E input \in InstructionBuffers : ProcessInstruction(DefaultPubkey, input)

Spec == Init /\ [][Next]_vars

(* ------------------- callers with and without authority ---------------- *)
\* program ids and account owners: the program's own key and a foreign one
ProgramIds == {DefaultPubkey, "other"}

\* the first account as a caller with the given authority would pass it
WithAuthority(account, owner, is_signer, is_writable) ==
    [account EXCEPT !.owner = owner, !.is_signer = is_signer, !.is_writable = is_writable]

\* account data of these calls: every 4-byte buffer over ByteVals, and a short one
AuthData == SeqsOfLen(ByteVals, 4) \cup {Fill(3)}

\* instruction buffers of these calls: one per variant, two malformed
AuthInputs ==
    {<<0, 255, 0, 0, 0>>, <<0, 255, 255, 255, 255>>, <<1, 255, 0, 0, 0>>,
     <<2, 0, 0, 0, 255>>, <<3>>, <<>>, <<4>>}

InitAuth ==
    /\ accounts \in {<<WithAuthority(AccountInfo(1, d), o, s, w)>> :
                        d \in AuthData, o \in ProgramIds, s \in BOOLEAN, w \in BOOLEAN}
    /\ InitCall
    /\ step = -1

NextAuth ==
    \E program_id \in ProgramIds, input \in AuthInputs :
        ProcessInstruction(program_id, input)

SpecAuth == InitAuth /\ [][NextAuth]_vars

(* ---------------------------- test driver ------------------------------ *)
\* a u32 below 65536
U32(n) == [lo |-> n, hi |-> 0]

\* an encoding that writes the operand most significant byte first
encode_big_endian(instruction) ==
    LET le == u32_to_le_bytes(instruction.value)
    IN  CASE instruction.variant = "Increment" -> <<0, le[4], le[3], le[2], le[1]>>
          [] instruction.variant = "Decrement" -> <<1, le[4], le[3], le[2], le[1]>>
          [] instruction.variant = "Update"    -> <<2, le[4], le[3], le[2], le[1]>>
          [] instruction.variant = "Reset"     -> <<3>>

\* the instruction buffers as test_counter builds them: the tag byte, then the
\* operand's to_le_bytes when the variant has one
encode(instruction) ==
    CASE instruction.variant = "Increment" -> <<0>> \o u32_to_le_bytes(instruction.value)
      [] instruction.variant = "Decrement" -> <<1>> \o u32_to_le_bytes(instruction.value)
      [] instruction.variant = "Update"    -> <<2>> \o u32_to_le_bytes(instruction.value)
      [] instruction.variant = "Reset"     -> <<3>>

\* the calls of test_counter, in order
Script ==
    <<encode([variant |-> "Increment", value |-> U32(20)]),
      encode([variant |-> "Decrement", value |-> U32(10)]),
      encode([variant |-> "Decrement", value |-> U32(30)]),
      encode([variant |-> "Update", value |-> U32(33)]),
      encode([variant |-> "Reset"])>>

\* what the driver may send: the script's calls, a Decrement undoing the script's
\* Increment, an Increment by 2^32 - 1, and an empty buffer
TestInputs ==
    {Script[i] : i \in 1..Len(Script)} \cup
    {encode([variant |-> "Decrement", value |-> U32(20)]),
     encode([variant |-> "Increment", value |-> [lo |-> 65535, hi |-> 65535]]),
     <<>>}

\* the counters the driver starts from: 0 (as test_counter), 2^32 - 1 and 255 * 2^24
TestData == {<<0, 0, 0, 0>>, <<255, 255, 255, 255>>, <<0, 0, 0, 255>>}

InitTest ==
    /\ accounts \in {<<AccountInfo(1, d)>> : d \in TestData}
    /\ InitCall
    /\ step = IF accounts[1].data = <<0, 0, 0, 0>> THEN 0 ELSE -1

\* the driver calls the entry point, remembers the call before and where it is in
\* the script
TestCall(input) ==
    /\ calls < MaxTestCalls
    /\ Call(DefaultPubkey, input)
    /\ earlier' = [instructions_data |-> instructions_data,
                   pre_accounts |-> pre_accounts,
                   result |-> result]
    /\ step' = IF step >= 0 /\ step < Len(Script) /\ input = Script[step + 1]
               THEN step + 1 ELSE -1

NextTest == \E input \in TestInputs : TestCall(input)

SpecTest == InitTest /\ [][NextTest]_vars

TypeOK ==
    /\ calls \in 0..MaxCalls
    /\ result \in {"None", Ok, MalformedInstruction, NotEnoughAccountKeys, MalformedState, Panic}

(* ------------------- vocabulary of the properties ---------------------- *)
\* a call has been made; the variables below describe it
Called == calls > 0

\* the last call's buffer is one the decoder accepts
WellFormed ==
    /\ Len(instructions_data) >= 1
    /\ \/ instructions_data[1] = 3
       \/ instructions_data[1] \in {0, 1, 2} /\ Len(instructions_data) - 1 >= 4

\* the last call's buffer is a tag followed by a whole operand
Carries(tag) ==
    /\ Len(instructions_data) >= 5
    /\ instructions_data[1] = tag

\* the last call found a first account whose data is a 4-byte counter
StateParsed == Len(pre_accounts) >= 1 /\ Len(pre_accounts[1].data) = 4

PreData == pre_accounts[1].data
PostData == accounts[1].data
OperandBytes == SubSeq(instructions_data, 2, 5)
ZeroBytes == <<0, 0, 0, 0>>

\* little-endian addition byte by byte, the carry rippling upwards
LeSum(a, b) ==
    LET s1 == a[1] + b[1]
        s2 == a[2] + b[2] + (s1 \div 256)
        s3 == a[3] + b[3] + (s2 \div 256)
        s4 == a[4] + b[4] + (s3 \div 256)
    IN  [bytes |-> <<s1 % 256, s2 % 256, s3 % 256, s4 % 256>>,
         carry |-> s4 \div 256]

\* a < b as little-endian numbers: decided at the highest byte that differs
LeLess(a, b) ==
    \E i \in 1..4 : a[i] < b[i] /\ \A j \in (i + 1)..4 : a[j] = b[j]

\* little-endian subtraction byte by byte, the borrow rippling upwards (a >= b)
LeDiff(a, b) ==
    LET d1 == a[1] - b[1]
        d2 == a[2] - b[2] - (IF d1 < 0 THEN 1 ELSE 0)
        d3 == a[3] - b[3] - (IF d2 < 0 THEN 1 ELSE 0)
        d4 == a[4] - b[4] - (IF d3 < 0 THEN 1 ELSE 0)
    IN  <<d1 % 256, d2 % 256, d3 % 256, d4 % 256>>

(* ------------------------------ claims --------------------------------- *)
\* C1: a call carrying Increment(v) on a stored counter c leaves the stored
\* counter equal to (c + v) mod 2^32, also when c + v exceeds 2^32 - 1.
C1_IncrementWraps ==
    (Called /\ Carries(0) /\ StateParsed) =>
        PostData = LeSum(PreData, OperandBytes).bytes

\* C2: a call carrying Decrement(v) on a stored counter c succeeds and leaves
\* c - v when c >= v and 0 when c < v; the result is never greater than c.
C2_DecrementFloors ==
    (Called /\ Carries(1) /\ StateParsed) =>
        /\ result = Ok
        /\ PostData = IF LeLess(PreData, OperandBytes) THEN ZeroBytes
                      ELSE LeDiff(PreData, OperandBytes)
        /\ ~LeLess(PreData, PostData)

\* a Decrement by more than the stored non-zero counter floored it to 0
C2_Witness ==
    /\ Called /\ Carries(1) /\ StateParsed
    /\ LeLess(PreData, OperandBytes)
    /\ PreData # ZeroBytes
    /\ PostData = ZeroBytes

\* C3: a call carrying Update(v) succeeds and leaves the stored counter equal
\* to v, whatever the counter was.
C3_UpdateReplaces ==
    (Called /\ Carries(2) /\ StateParsed) =>
        /\ result = Ok
        /\ PostData = OperandBytes

\* an Update replaced a counter that differed from its operand
C3_Witness ==
    /\ Called /\ Carries(2) /\ StateParsed
    /\ PreData # OperandBytes
    /\ PostData = OperandBytes

\* C4: a call carrying Reset succeeds and leaves the stored counter equal to 0.
C4_ResetZeroes ==
    (Called /\ Len(instructions_data) >= 1 /\ instructions_data[1] = 3 /\ StateParsed) =>
        /\ result = Ok
        /\ PostData = ZeroBytes

\* a Reset zeroed a non-zero counter
C4_Witness ==
    /\ Called /\ Len(instructions_data) >= 1 /\ instructions_data[1] = 3
    /\ StateParsed
    /\ PreData # ZeroBytes
    /\ PostData = ZeroBytes

\* C5: once the instruction decodes and the persisted state parses, the call
\* returns Ok for every counter and every instruction.
C5_TransitionCannotFail ==
    (Called /\ WellFormed /\ StateParsed) => result = Ok

\* C6: decoding fails with MalformedInstruction whenever the buffer is empty,
\* its first byte is not in {0,1,2,3}, or its first byte is 0, 1 or 2 and fewer
\* than 4 bytes follow; process_instruction then returns that error.
C6_MalformedInstructionRejected ==
    (/\ Called
     /\ \/ Len(instructions_data) = 0
        \/ instructions_data[1] \notin {0, 1, 2, 3}
        \/ instructions_data[1] \in {0, 1, 2} /\ Len(instructions_data) - 1 < 4)
    => result = MalformedInstruction

\* a truncated operand was rejected although no account was passed
C6_Witness ==
    /\ Called
    /\ Len(instructions_data) = 4
    /\ instructions_data[1] \in {0, 1, 2}
    /\ Len(pre_accounts) = 0
    /\ result = MalformedInstruction

\* C7: [tag] ++ le_bytes(v) acts as the variant of the tag carrying exactly v:
\* 0 is Increment, 1 Decrement, 2 Update, with v the little-endian u32 of
\* bytes 1..4, and [3] is Reset.
C7_WireFormat ==
    (Called /\ StateParsed) =>
        /\ (Len(instructions_data) = 5 /\ instructions_data[1] = 0 /\ result = Ok)
               => PostData = LeSum(PreData, OperandBytes).bytes
        /\ (Len(instructions_data) = 5 /\ instructions_data[1] = 1)
               => PostData = IF LeLess(PreData, OperandBytes) THEN ZeroBytes
                             ELSE LeDiff(PreData, OperandBytes)
        /\ (Len(instructions_data) = 5 /\ instructions_data[1] = 2)
               => PostData = OperandBytes
        /\ instructions_data = <<3>> => PostData = ZeroBytes

\* [1] ++ le_bytes(255) took exactly 255 off a counter of 255 * 2^24
C7_Witness ==
    /\ Called /\ StateParsed
    /\ instructions_data = <<1, 255, 0, 0, 0>>
    /\ PreData = <<0, 0, 0, 255>>
    /\ PostData = <<1, 255, 255, 254>>

\* C8: whenever process_instruction returns an error, the account list, and with
\* it the persisted state buffer, is byte for byte what it was before the call.
C8_ErrorLeavesStateUntouched ==
    (Called /\ result \in {MalformedInstruction, MalformedState, NotEnoughAccountKeys})
        => accounts = pre_accounts

\* a call on a 3-byte state buffer failed and the 3 bytes are still there
C8_Witness ==
    /\ Called /\ WellFormed
    /\ result = MalformedState
    /\ Len(pre_accounts) >= 1 /\ pre_accounts[1].data = <<255, 255, 255>>
    /\ accounts[1].data = <<255, 255, 255>>

\* C9: when the persisted state buffer is not exactly 4 bytes long, every call
\* with a well-formed instruction fails with MalformedState and applies nothing.
C9_MalformedStateRejected ==
    (/\ Called /\ WellFormed
     /\ Len(pre_accounts) >= 1
     /\ Len(pre_accounts[1].data) # 4)
    => /\ result = MalformedState
       /\ accounts = pre_accounts

\* an Update on a 5-byte state buffer was rejected
C9_Witness ==
    /\ Called /\ Carries(2)
    /\ Len(pre_accounts) >= 1 /\ Len(pre_accounts[1].data) = 5
    /\ result = MalformedState
    /\ accounts = pre_accounts

\* C10 as stated: no call, not even one made with an empty account list,
\* returns an error other than MalformedInstruction or MalformedState.
C10_TwoErrorKinds ==
    (Called /\ result \notin {Ok, Panic})
        => result \in {MalformedInstruction, MalformedState}

\* C10 amended: a returned error is MalformedInstruction, MalformedState or
\* NotEnoughAccountKeys, the last exactly when the instruction decodes and the
\* account list is empty; the write-back never fails; the one failure that is
\* no returned error is the abort of an overflowing Increment.
C10_ThreeErrorKinds ==
    Called =>
        /\ result \in {Ok, MalformedInstruction, MalformedState, NotEnoughAccountKeys, Panic}
        /\ result = MalformedInstruction <=> ~WellFormed
        /\ result = NotEnoughAccountKeys <=> (WellFormed /\ Len(pre_accounts) = 0)
        /\ result = MalformedState <=>
               (WellFormed /\ Len(pre_accounts) >= 1 /\ Len(pre_accounts[1].data) # 4)
        /\ result = Panic =>
               /\ Carries(0) /\ StateParsed /\ overflow_checks
               /\ LeSum(PreData, OperandBytes).carry = 1

\* a well-formed instruction sent with an empty account list
C10_Witness ==
    /\ Called /\ WellFormed
    /\ Len(pre_accounts) = 0
    /\ result = NotEnoughAccountKeys

Expected == <<<<20, 0, 0, 0>>, <<10, 0, 0, 0>>, ZeroBytes, <<33, 0, 0, 0>>, ZeroBytes>>

\* C12: from counter 0, Increment(20), Decrement(10), Decrement(30), Update(33),
\* Reset leave 20, 10, 0, 33 and 0, every step succeeding and every step reading
\* what the step before wrote.
C12_Scenario ==
    step \in 1..Len(Script) =>
        /\ calls = step
        /\ result = Ok
        /\ PostData = Expected[step]
        /\ PreData = IF step = 1 THEN ZeroBytes ELSE Expected[step - 1]

\* the whole script has run: the Reset found 33 and left 0
C12_Witness ==
    /\ step = 5
    /\ instructions_data = <<3>>
    /\ PreData = <<33, 0, 0, 0>>
    /\ PostData = ZeroBytes

\* the counter a call computes from the data it found
Computed(data, input) ==
    apply_instruction(try_from_slice(data).counter_account.counter,
                      unpack(input).instruction, overflow_checks).counter

\* b is the 4-byte little-endian form of the u32 x
IsLeOf(b, x) ==
    /\ Len(b) = 4
    /\ x.lo = b[1] + 256 * b[2]
    /\ x.hi = b[3] + 256 * b[4]

\* C13: a successful call writes the new counter back as 4 little-endian bytes
\* in the buffer it was read from: the length is unchanged, the written bytes
\* are the post-transition counter, and the next call reads that value.
C13_WriteBackLittleEndian ==
    /\ (Called /\ result = Ok) =>
           /\ Len(PostData) = Len(PreData)
           /\ IsLeOf(PostData, Computed(PreData, instructions_data))
    /\ (calls >= 2 /\ earlier.result = Ok) =>
           IsLeOf(PreData, Computed(earlier.pre_accounts[1].data, earlier.instructions_data))

\* a Decrement by 10 read the 20 an Increment had written and wrote 10
C13_Witness ==
    /\ calls >= 2
    /\ earlier.result = Ok /\ result = Ok
    /\ earlier.instructions_data = Script[1]
    /\ instructions_data = Script[2]
    /\ PreData = <<20, 0, 0, 0>>
    /\ PostData = <<10, 0, 0, 0>>

\* the order of a whole request
RequestOrder ==
    <<"unpack", "next_account_info", "borrow", "try_from_slice",
      "match", "borrow_mut", "serialize", "return">>

\* how often a step occurs among the steps of the last call
Count(name) == Cardinality({i \in 1..Len(events) : events[i] = name})

\* C14: within one request the instruction is decoded, the state read, one
\* transition applied once, the state written back, and then the request
\* completes; a successful request writes the state exactly once, before it
\* returns Ok, and a request that is not successful does not write.
C14_RequestOrder ==
    Called =>
        /\ result = Ok <=> events = RequestOrder
        /\ Len(events) >= 1
        /\ SubSeq(events, 1, Len(events) - 1) = SubSeq(RequestOrder, 1, Len(events) - 1)
        /\ events[Len(events)] \in {"return", "abort"}
        /\ Count("match") <= 1
        /\ Count("serialize") = IF result = Ok THEN 1 ELSE 0

\* a successful request that changed the counter
C14_Witness ==
    /\ Called /\ StateParsed
    /\ result = Ok
    /\ events = RequestOrder
    /\ PostData # PreData

\* the instructions whose operand is built of ByteVals
InstructionValues ==
    {[variant |-> "Reset"]} \cup
    {[variant |-> n, value |-> [lo |-> b[1] + 256 * b[2], hi |-> b[3] + 256 * b[4]]] :
        n \in {"Increment", "Decrement", "Update"}, b \in SeqsOfLen(ByteVals, 4)}

\* C15: decoding an encoded instruction gives the instruction back, for every
\* variant and operand, where encode emits the tag byte and then the
\* little-endian operand when the variant has one.
C15_RoundTrip ==
    Called =>
        \A i \in InstructionValues :
            instructions_data = encode(i) =>
                unpack(instructions_data) = [err |-> Ok, instruction |-> i]

\* the call carried the encoding of Decrement(255 * 2^24 + 255)
C15_Witness ==
    /\ Called
    /\ instructions_data = encode([variant |-> "Decrement",
                                   value |-> [lo |-> 255, hi |-> 65280]])
    /\ instructions_data = <<1, 255, 0, 0, 255>>
    /\ result \in {Ok, NotEnoughAccountKeys, MalformedState}

\* C16: the instruction is decoded before the account list and the state are
\* looked at: a malformed instruction is answered with the decoding error even
\* when the account list is empty or the state does not parse, and the state
\* buffer is neither borrowed nor read.
C16_DecodeFirst ==
    (Called /\ ~WellFormed) =>
        /\ result = MalformedInstruction
        /\ events = <<"unpack", "return">>
        /\ accounts = pre_accounts

\* a bad tag was rejected on a state buffer that would not have parsed either
C16_Witness ==
    /\ Called
    /\ instructions_data = <<4>>
    /\ Len(pre_accounts) >= 1 /\ Len(pre_accounts[1].data) = 3
    /\ result = MalformedInstruction

\* C17: a call touches only the data of the first account: the data of every
\* other account and the key, lamports, owner and flags of every account are as
\* before, whether the call succeeds or fails.
C17_OnlyFirstAccountData ==
    Called =>
        /\ Len(accounts) = Len(pre_accounts)
        /\ \A i \in 1..Len(accounts) :
               /\ accounts[i].key = pre_accounts[i].key
               /\ accounts[i].lamports = pre_accounts[i].lamports
               /\ accounts[i].owner = pre_accounts[i].owner
               /\ accounts[i].is_signer = pre_accounts[i].is_signer
               /\ accounts[i].is_writable = pre_accounts[i].is_writable
               /\ i > 1 => accounts[i].data = pre_accounts[i].data

\* the first of two counter accounts changed, the second kept its counter
C17_Witness ==
    /\ Called /\ result = Ok
    /\ Len(accounts) = 2
    /\ PostData # PreData
    /\ pre_accounts[2].data = <<255, 0, 0, 0>>
    /\ accounts[2].data = <<255, 0, 0, 0>>

\* C18: the result and the stored counter depend on the instruction bytes and
\* the first account's data only: a caller with any other program id, account
\* owner, signer flag and writable flag gets the same result and the same
\* counter, so no caller is turned away for lack of authority.
C18_NoAuthority ==
    (Called /\ Len(pre_accounts) >= 1) =>
        \A program_id \in ProgramIds, owner \in ProgramIds,
           is_signer \in BOOLEAN, is_writable \in BOOLEAN :
            LET other == process_instruction(
                             program_id,
                             [pre_accounts EXCEPT ![1] =
                                 WithAuthority(pre_accounts[1], owner, is_signer, is_writable)],
                             instructions_data, overflow_checks)
            IN  /\ other.result = result
                /\ other.accounts[1].data = accounts[1].data

\* an account that did not sign, is not writable and belongs to another program
\* had its counter changed
C18_Witness ==
    /\ Called /\ result = Ok
    /\ ~pre_accounts[1].is_signer
    /\ ~pre_accounts[1].is_writable
    /\ pre_accounts[1].owner = "other"
    /\ PostData # PreData

\* the last two calls were Increment(v) and then Decrement(v), with the same v
IncrementThenDecrement ==
    /\ calls >= 2
    /\ Len(earlier.instructions_data) = 5 /\ earlier.instructions_data[1] = 0
    /\ Len(instructions_data) = 5 /\ instructions_data[1] = 1
    /\ SubSeq(earlier.instructions_data, 2, 5) = OperandBytes

\* the counter the Increment of the pair found
PairStart == earlier.pre_accounts[1].data

\* C19: Increment(v) followed by Decrement(v) restores the counter c when
\* c + v <= 2^32-1; when c + v > 2^32-1 it does not: the wrapped sum is below v
\* and the Decrement floors the counter to 0.
C19_IncrementDecrementPair ==
    IncrementThenDecrement =>
        IF LeSum(PairStart, OperandBytes).carry = 0
        THEN PostData = PairStart
        ELSE PostData # PairStart /\ PostData = ZeroBytes

\* C20: Reset and Update(v) erase history and are idempotent: after any
\* sequence ending in Reset the counter is 0, after any sequence ending in
\* Update(v) it is v, and the same Reset or Update(v) a second time leaves the
\* counter as it is.
C20_ResetUpdateIdempotent ==
    Called =>
        /\ instructions_data = <<3>> => PostData = ZeroBytes
        /\ Carries(2) => PostData = OperandBytes
        /\ (/\ calls >= 2
            /\ WellFormed
            /\ instructions_data[1] \in {2, 3}
            /\ earlier.instructions_data = instructions_data)
           => PostData = PreData

\* Update(33) was applied twice in a row to a counter that was not 33 before
C20_Witness ==
    /\ calls >= 2
    /\ instructions_data = Script[4]
    /\ earlier.instructions_data = Script[4]
    /\ earlier.pre_accounts[1].data # <<33, 0, 0, 0>>
    /\ PreData = <<33, 0, 0, 0>>
    /\ PostData = <<33, 0, 0, 0>>
====
